---- MODULE Spec2Model ----
(***************************************************************************)
(* Model of the eth-parser polling-and-indexing engine:                    *)
(*   business/parser/parser.go  (EthereumParser, the polling goroutine)    *)
(*   business/storage           (MemoryStorage)                            *)
(* The gateway is the environment: every request draws its response from   *)
(* a small set (transport failure, undecodable body, or a result).          *)
(***************************************************************************)
EXTENDS Integers, Sequences, FiniteSets, TLC

VARIABLES
    subscriptions,   \* MemoryStorage.subscriptions: the keys of the map (every value is true)
    transactions,    \* MemoryStorage.transactions: address -> sequence, only for the keys present
    currentBlock,    \* EthereumParser.currentBlock
    pc,              \* position of the polling goroutine
    iterSeen,        \* keys of the map when the unlocked iteration of Subscribers() began
    snapshot,        \* the addresses Subscribers() returned to the running (or last) cycle
    todo,            \* the rest of the range loop of pollTransactions, head = address being scanned
    blockNum,        \* local blockNum of getTransactionsSinceBlock
    i,               \* local loop counter i of getTransactionsSinceBlock
    reply,           \* what the last Subscribe call returned to its caller
    trueReturns,     \* history: number of Subscribe calls per address that returned true
    cycles,          \* history: number of poll cycles started
    startBlock,      \* history: the watermark when the running (or last) cycle started
    cycleOK,         \* history: no gateway request of the running (or last) cycle failed
    cycleH,          \* history: the heights the cycle's height queries returned
    prevH,           \* history: {H} if the previous cycle was fully successful at height H, else {}
    failedBlocks,    \* history: blocks whose fetch or decode failed in the running (or last) cycle
    appendedBlocks,  \* history: blocks of which a transaction was appended in the running (or last) cycle
    scanSubs,        \* history: block -> subscriber snapshot when the watermark first passed it
    heightFailed,    \* history: a height query of the running (or last) cycle failed
    matchedBy,       \* history: block -> addresses it was matched against in the running (or last) cycle
    chain,           \* which chain the gateway serves; it never changes
    response,        \* the HTTP response a handler wrote last
    phase,           \* main's run(): "running", "shutdown" (signal received) or "exited"
    lock,            \* MemoryStorage's RWMutex: "free" or the operation that holds it
    txsLeft,         \* the rest of the loop over the transactions of the block just decoded
    caller           \* the address argument of the Subscribe call that holds the lock

\* The variables only the specifications of the shutdown and of the lock change.
auxVars == <<phase, lock, txsLeft, caller>>

vars == <<subscriptions, transactions, currentBlock, pc, iterSeen, snapshot, todo,
          blockNum, i, reply, trueReturns, cycles, startBlock, cycleOK, cycleH,
          prevH, failedBlocks, appendedBlocks, scanSubs, heightFailed, matchedBy,
          chain, response, auxVars>>

\* Bounds of the model.
MaxHeight == 2          \* the chain has blocks 1..MaxHeight; the gateway reports 0..MaxHeight
MaxCycles == 2          \* poll cycles started
IntBits == 4            \* the width of Go's int and int64, scaled down from 64

\* The addresses handlers subscribe and query; "0xC" is only a counterparty on the chain.
Addresses == {"0xA", "0xB"}
Queried == Addresses \union {"0xC"}

\* The :address path parameters of the HTTP requests.
HttpAddresses == Addresses \union {"unknown"}

----------------------------------------------------------------------------
\* The gateway's chain (the environment's data).

\* One transaction object of an eth_getBlockByNumber result.
ChainTx(b, k, from, to) ==
    [hash |-> 10 * b + k, from |-> from, to |-> to, value |-> "v", gas |-> "g",
     gasPrice |-> "p", blockNumber |-> b, blockHash |-> 100 + b]

\* A chain with two transactions in every block, one of them from an address to itself.
MixedBlock(b) ==
    IF b % 2 = 1
    THEN << ChainTx(b, 1, "0xA", "0xB"), ChainTx(b, 2, "0xA", "0xA") >>
    ELSE << ChainTx(b, 1, "0xC", "0xA"), ChainTx(b, 2, "0xB", "0xA") >>

\* A chain of two blocks with one transaction each: 0xA -> 0xB, then 0xC -> 0xA.
ScenarioBlock(b) ==
    IF b = 1 THEN << ChainTx(1, 1, "0xA", "0xB") >>
    ELSE IF b = 2 THEN << ChainTx(2, 1, "0xC", "0xA") >>
    ELSE << >>

\* result.transactions of block b.
Block(b) == IF chain = "scenario" THEN ScenarioBlock(b) ELSE MixedBlock(b)

----------------------------------------------------------------------------
\* Hexadecimal text, as sequences of characters.

HexDigits == << "0", "1", "2", "3", "4", "5", "6", "7", "8", "9",
                "a", "b", "c", "d", "e", "f" >>

IsHexDigit(c) == \E d \in 1..16 : HexDigits[d] = c

DigitVal(c) == (CHOOSE d \in 1..16 : HexDigits[d] = c) - 1

\* fmt.Sprintf("%x", n) for n >= 0.
RECURSIVE FormatHex(_)
FormatHex(n) ==
    IF n < 16 THEN << HexDigits[n + 1] >>
    ELSE Append(FormatHex(n \div 16), HexDigits[(n % 16) + 1])

\* The "0x%x" of a request parameter and of a well-formed result; %x writes a
\* negative int as a minus sign and the digits of its magnitude.
HexString(n) ==
    IF n < 0 THEN << "0", "x", "-" >> \o FormatHex(0 - n)
    ELSE << "0", "x" >> \o FormatHex(n)

\* new(big.Int).SetString(s, 16).
RECURSIVE HexValue(_)
HexValue(s) ==
    IF Len(s) = 0 THEN 0
    ELSE 16 * HexValue(SubSeq(s, 1, Len(s) - 1)) + DigitVal(s[Len(s)])

\* The pointer is nil (ok = FALSE) when s is empty or holds a character that is no digit.
SetString(s) ==
    IF Len(s) > 0 /\ \A k \in 1..Len(s) : IsHexDigit(s[k])
    THEN [ok |-> TRUE, value |-> HexValue(s)]
    ELSE [ok |-> FALSE, value |-> 0]

\* The result strings the gateway may answer eth_blockNumber with.
HeightResults ==
    { HexString(h) : h \in 0..MaxHeight } \union { << >>, << "0", "x" >>, << "0", "x", "z" >> }

\* The block the gateway serves for the request parameter "0x..": for a parameter
\* that is no block number it answers an error object, which decodes to a result
\* without transactions.
BlockByNumber(param) ==
    IF SetString(SubSeq(param, 3, Len(param))).ok
    THEN Block(SetString(SubSeq(param, 3, Len(param))).value)
    ELSE << >>

\* int(blockNum.Int64()) for blockNum >= 0: the low IntBits bits of the value read
\* as a two's complement number (int is as wide as int64 in the build).
Int64(v) ==
    IF v % (2 ^ IntBits) >= 2 ^ (IntBits - 1)
    THEN (v % (2 ^ IntBits)) - 2 ^ IntBits
    ELSE v % (2 ^ IntBits)

----------------------------------------------------------------------------
\* MemoryStorage (business/storage). A slice is [isNil, elems]: Go tells a nil
\* slice from an empty one.

NilSlice == [isNil |-> TRUE, elems |-> << >>]
EmptySlice == [isNil |-> FALSE, elems |-> << >>]

\* A Subscribe that reports every call as a new registration.
SubscribeResultAlwaysTrue(subs, address) == TRUE

\* MemoryStorage.Subscribe, run under ms.Lock(): the value returned.
SubscribeResult(subs, address) == address \notin subs

\* MemoryStorage.Subscribe: the map after the call.
SubscribeUpdate(subs, address) == subs \union {address}

\* The orders in which ranging over a map with keys S may yield them.
Orders(S) ==
    { q \in [1..Cardinality(S) -> S] : \A a \in S : \E k \in 1..Cardinality(S) : q[k] = a }

\* An AddTransaction that puts the new entry in front of the list.
AddTransactionInFront(store, address, tx) ==
    IF address \in DOMAIN store
    THEN [store EXCEPT ![address] = << tx >> \o @]
    ELSE [a \in DOMAIN store \union {address} |->
            IF a = address THEN << tx >> ELSE store[a]]

\* MemoryStorage.AddTransaction, run under ms.Lock(): the index after the append.
AddTransaction(store, address, tx) ==
    IF address \in DOMAIN store
    THEN [store EXCEPT ![address] = Append(@, tx)]
    ELSE [a \in DOMAIN store \union {address} |->
            IF a = address THEN << tx >> ELSE store[a]]

\* MemoryStorage.GetTransactions, run under ms.RLock(): a missing key reads as nil.
StorageGetTransactions(store, address) ==
    IF address \in DOMAIN store
    THEN [isNil |-> FALSE, elems |-> store[address]]
    ELSE NilSlice

----------------------------------------------------------------------------
\* EthereumParser (business/parser/parser.go): the facade.

\* EthereumParser.GetCurrentBlock.
GetCurrentBlock == currentBlock

\* A facade that hands out the store's slice as it is.
GetTransactionsNoNilCheck(store, address) == StorageGetTransactions(store, address)

\* EthereumParser.GetTransactions.
GetTransactions(store, address) ==
    LET txs == StorageGetTransactions(store, address)
    IN  IF ~txs.isNil THEN txs ELSE EmptySlice

\* The Transaction literal built in getTransactionsSinceBlock: Status, BlockNumber
\* and BlockHash are not set.
NewTransaction(tx) ==
    [hash |-> tx.hash, from |-> tx.from, to |-> tx.to, value |-> tx.value,
     gas |-> tx.gas, gasPrice |-> tx.gasPrice, status |-> "", blockNumber |-> 0,
     blockNumberIsNil |-> TRUE, blockHash |-> 0]

\* A loop body with two independent tests, one for the sender and one for the
\* recipient.
MatchOneBothRoles(store, address, tx) ==
    LET asSender == IF tx.from = address
                    THEN AddTransaction(store, tx.from, NewTransaction(tx))
                    ELSE store
    IN  IF tx.to = address
        THEN AddTransaction(asSender, tx.to, NewTransaction(tx))
        ELSE asSender

\* A loop body that compares the sender only.
MatchOneSenderOnly(store, address, tx) ==
    IF tx.from = address THEN AddTransaction(store, tx.from, NewTransaction(tx))
    ELSE store

\* A loop body that files every transaction of the block under the scanned address.
MatchOneUnfiltered(store, address, tx) ==
    AddTransaction(store, address, NewTransaction(tx))

\* The body of the loop over blockResp.Result.Transactions, for one transaction.
MatchOne(store, address, tx) ==
    IF tx.from = address THEN AddTransaction(store, tx.from, NewTransaction(tx))
    ELSE IF tx.to = address THEN AddTransaction(store, tx.to, NewTransaction(tx))
    ELSE store

\* The loop over blockResp.Result.Transactions.
RECURSIVE MatchTransactions(_, _, _)
MatchTransactions(store, address, txs) ==
    IF txs = << >> THEN store
    ELSE MatchTransactions(MatchOne(store, address, Head(txs)), address, Tail(txs))

----------------------------------------------------------------------------
\* The state after NewEthereumParser(storage.NewMemoryStorage(), ...): empty maps,
\* watermark 0, the polling goroutine about to sleep.
Start(c) ==
    /\ chain = c
    /\ heightFailed = FALSE
    /\ matchedBy = << >>
    /\ response = [route |-> "none", address |-> "", status |-> 0, parserCalled |-> FALSE,
                   result |-> FALSE, n |-> 0]
    /\ phase = "running"
    /\ lock = "free"
    /\ txsLeft = << >>
    /\ caller = ""
    /\ subscriptions = {}
    /\ transactions = << >>
    /\ currentBlock = 0
    /\ pc = "sleep"
    /\ iterSeen = {}
    /\ snapshot = {}
    /\ todo = << >>
    /\ blockNum = 0
    /\ i = 0
    /\ reply = [op |-> "none", address |-> "", ok |-> FALSE]
    /\ trueReturns = [a \in HttpAddresses |-> 0]
    /\ cycles = 0
    /\ startBlock = 0
    /\ cycleOK = TRUE
    /\ cycleH = {}
    /\ prevH = {}
    /\ failedBlocks = {}
    /\ appendedBlocks = {}
    /\ scanSubs = << >>

Init == Start("mixed")

pollVars == <<pc, iterSeen, snapshot, todo, blockNum, i>>
cycleHist == <<cycles, startBlock, cycleOK, cycleH, prevH, failedBlocks,
               appendedBlocks, heightFailed, matchedBy>>

----------------------------------------------------------------------------
\* Calls of the facade by the HTTP handlers' goroutines. GetCurrentBlock and
\* GetTransactions change nothing: they are the operators above, read in any state.

\* EthereumParser.Subscribe -> MemoryStorage.Subscribe, the whole call under the lock.
SubscribeCall(address) ==
    /\ pc # "crashed"
    /\ subscriptions' = SubscribeUpdate(subscriptions, address)
    /\ reply' = [op |-> "Subscribe", address |-> address,
                 ok |-> SubscribeResult(subscriptions, address)]
    /\ trueReturns' = [trueReturns EXCEPT
                         ![address] = IF SubscribeResult(subscriptions, address)
                                      THEN @ + 1 ELSE @]
    /\ UNCHANGED <<transactions, currentBlock, pollVars, cycleHist, scanSubs, chain>>

\* The call made by a caller that writes no HTTP response.
Subscribe(address) == SubscribeCall(address) /\ UNCHANGED <<response, auxVars>>

\* The map write of a Subscribe of a new address while the polling goroutine ranges
\* over the same map without the lock (Subscribers): the runtime may detect it and
\* end the process with "concurrent map iteration and map write".
SubscribeDuringIteration(address) ==
    /\ pc = "subscribers"
    /\ SubscribeResult(subscriptions, address)
    /\ pc' = "crashed"
    /\ UNCHANGED <<subscriptions, transactions, currentBlock, iterSeen, snapshot, todo,
                   blockNum, i, reply, trueReturns, cycleHist, scanSubs, chain, response, auxVars>>

----------------------------------------------------------------------------
\* The polling goroutine: pollTransactions and getTransactionsSinceBlock.

\* pollTransactions: the sleep is over, Subscribers() starts ranging over the map.
SubscribersBegin ==
    /\ pc = "sleep"
    /\ cycles < MaxCycles
    /\ pc' = "subscribers"
    /\ iterSeen' = subscriptions
    /\ cycles' = cycles + 1
    /\ UNCHANGED <<subscriptions, transactions, currentBlock, snapshot, todo, blockNum, i,
                   reply, trueReturns, startBlock, cycleOK, cycleH, prevH,
                   failedBlocks, appendedBlocks, scanSubs, heightFailed, matchedBy,
                   chain, response, auxVars>>

\* Subscribers() returns: every key present when the iteration began, any of the
\* keys written meanwhile, in any order; the range loop of pollTransactions starts.
SubscribersEnd ==
    /\ pc = "subscribers"
    /\ \E S \in SUBSET subscriptions :
         /\ iterSeen \subseteq S
         /\ snapshot' = S
         /\ \E q \in Orders(S) : todo' = q
         /\ pc' = IF S = {} THEN "sleep" ELSE "height"
    /\ iterSeen' = {}
    /\ startBlock' = currentBlock
    /\ prevH' = IF cycleOK /\ Cardinality(cycleH) = 1 THEN cycleH ELSE {}
    /\ cycleOK' = TRUE
    /\ cycleH' = {}
    /\ failedBlocks' = {}
    /\ appendedBlocks' = {}
    /\ heightFailed' = FALSE
    /\ matchedBy' = << >>
    /\ UNCHANGED <<subscriptions, transactions, currentBlock, blockNum, i, reply,
                   trueReturns, cycles, scanSubs, chain, response, auxVars>>

\* A loop that starts at the watermark itself (i := p.currentBlock).
LoopStartRescan(watermark) == watermark

\* The first block of the loop of getTransactionsSinceBlock: i := p.currentBlock + 1.
LoopStart(watermark) == watermark + 1

\* A return after which the goroutine sleeps although addresses are left to scan.
ReturnToSleep ==
    /\ todo' = Tail(todo)
    /\ pc' = "sleep"

\* getTransactionsSinceBlock returns to the range loop of pollTransactions.
Return ==
    /\ todo' = Tail(todo)
    /\ pc' = IF Len(todo) > 1 THEN "height" ELSE "sleep"

\* p.currentBlock = n, with the history of the blocks it passes.
SetCurrentBlock(n) ==
    /\ currentBlock' = n
    /\ scanSubs' = [b \in DOMAIN scanSubs \union (1..n) |->
                      IF b \in DOMAIN scanSubs THEN scanSubs[b] ELSE snapshot]

\* The eth_blockNumber request fails in transport or its body does not decode.
HeightError ==
    /\ pc = "height"
    /\ Return
    /\ cycleOK' = FALSE
    /\ heightFailed' = TRUE
    /\ UNCHANGED <<subscriptions, transactions, currentBlock, iterSeen, snapshot, blockNum,
                   i, reply, trueReturns, cycles, startBlock, cycleH, prevH,
                   failedBlocks, appendedBlocks, scanSubs, matchedBy, chain, response, auxVars>>

\* The eth_blockNumber response decodes, but Result[2:] is out of range or
\* SetString yields nil, and blockNum.Int64() dereferences it: the goroutine panics.
HeightPanic(result) ==
    /\ pc = "height"
    /\ Len(result) < 2 \/ ~SetString(SubSeq(result, 3, Len(result))).ok
    /\ pc' = "crashed"
    /\ cycleOK' = FALSE
    /\ heightFailed' = TRUE
    /\ UNCHANGED <<subscriptions, transactions, currentBlock, iterSeen, snapshot, todo,
                   blockNum, i, reply, trueReturns, cycles, startBlock, cycleH, prevH,
                   failedBlocks, appendedBlocks, scanSubs, matchedBy, chain, response, auxVars>>

\* The eth_blockNumber response decodes to a height: the block loop starts, or,
\* with no block above the watermark, the watermark is set and the call returns.
HeightOK(result) ==
    /\ pc = "height"
    /\ Len(result) >= 2
    /\ SetString(SubSeq(result, 3, Len(result))).ok
    /\ LET h == SetString(SubSeq(result, 3, Len(result))).value
       IN  /\ blockNum' = h
           /\ cycleH' = cycleH \union {h}
           /\ i' = LoopStart(currentBlock)
           /\ IF LoopStart(currentBlock) <= Int64(h)
              THEN /\ pc' = "fetch"
                   /\ UNCHANGED <<todo, currentBlock, scanSubs>>
              ELSE /\ Return
                   /\ SetCurrentBlock(Int64(h))
    /\ UNCHANGED <<subscriptions, transactions, iterSeen, snapshot, reply,
                   trueReturns, cycles, startBlock, cycleOK, prevH,
                   failedBlocks, appendedBlocks, heightFailed, matchedBy, chain, response, auxVars>>

\* The eth_getBlockByNumber request for block i fails in transport or its body
\* does not decode: getTransactionsSinceBlock returns the error.
FetchError ==
    /\ pc = "fetch"
    /\ Return
    /\ cycleOK' = FALSE
    /\ failedBlocks' = failedBlocks \union {i}
    /\ UNCHANGED <<subscriptions, transactions, currentBlock, iterSeen, snapshot, blockNum,
                   i, reply, trueReturns, cycles, startBlock, cycleH, prevH,
                   appendedBlocks, scanSubs, heightFailed, matchedBy, chain, response, auxVars>>

\* Block i is fetched and decoded and its transactions are matched against the
\* address being scanned; after the last block the watermark is set.
FetchOK ==
    /\ pc = "fetch"
    /\ LET address == Head(todo)
           txs == BlockByNumber(HexString(i))
       IN  /\ transactions' = MatchTransactions(transactions, address, txs)
           /\ appendedBlocks' =
                IF MatchTransactions(transactions, address, txs) # transactions
                THEN appendedBlocks \union {i} ELSE appendedBlocks
           /\ matchedBy' = [b \in DOMAIN matchedBy \union {i} |->
                              (IF b \in DOMAIN matchedBy THEN matchedBy[b] ELSE {})
                                \union (IF b = i THEN {address} ELSE {})]
    /\ i' = i + 1
    /\ IF i + 1 <= Int64(blockNum)
       THEN UNCHANGED <<pc, todo, currentBlock, scanSubs>>
       ELSE /\ Return
            /\ SetCurrentBlock(Int64(blockNum))
    /\ UNCHANGED <<subscriptions, iterSeen, snapshot, blockNum, reply, trueReturns,
                   cycles, startBlock, cycleOK, cycleH, prevH, failedBlocks,
                   heightFailed, chain, response, auxVars>>

Next ==
    \/ \E a \in Addresses : Subscribe(a)
    \/ \E a \in Addresses : SubscribeDuringIteration(a)
    \/ SubscribersBegin
    \/ SubscribersEnd
    \/ HeightError
    \/ \E r \in HeightResults : HeightPanic(r)
    \/ \E r \in HeightResults : HeightOK(r)
    \/ FetchError
    \/ FetchOK

Spec == Init /\ [][Next]_vars

----------------------------------------------------------------------------
\* Vocabulary of the properties.

\* What a reader gets from the facade for an address, in the current state.
Stored(a) == GetTransactions(transactions, a).elems

\* The block and the position in its block of a transaction, read off its hash.
BlockOf(tx) == tx.hash \div 10
IndexOf(tx) == tx.hash % 10

Matches(tx, a) == tx.from = a \/ tx.to = a

HasTx(a, tx) == \E k \in 1..Len(Stored(a)) : Stored(a)[k].hash = tx.hash

\* Every transaction of block b that touches a is in the list of a.
BlockIndexed(b, a) ==
    \A k \in 1..Len(Block(b)) : Matches(Block(b)[k], a) => HasTx(a, Block(b)[k])

\* A poll cycle has run to its end and the next one has not started.
CycleEnded == pc = "sleep" /\ cycles > 0

\* No request of the cycle failed and every height query of it was answered H.
SuccessfulAt(H) == cycleOK /\ cycleH = {H}

----------------------------------------------------------------------------
\* C1: after a poll cycle in which every height query returns H and no request
\* fails, every transaction of blocks w+1..H (w the watermark at the start of the
\* cycle) with from or to in the cycle's subscriber snapshot is listed under each
\* matching address.
C1_MatchesIndexedAfterCycle ==
    \A H \in 0..MaxHeight :
        (CycleEnded /\ SuccessfulAt(H)) =>
            \A b \in (startBlock + 1)..H : \A a \in snapshot : BlockIndexed(b, a)

\* C2: in every state, every block at or below the watermark has all its
\* transactions that touch an address of the snapshot in force when the watermark
\* passed the block listed under that address.
C2_WatermarkImpliesIndexed ==
    \A b \in DOMAIN scanSubs :
        b <= GetCurrentBlock => \A a \in scanSubs[b] : BlockIndexed(b, a)

\* C3: the watermark never decreases, whatever the gateway answers.
C3_WatermarkMonotonic == [][currentBlock' >= currentBlock]_vars

\* C4: no list holds the same transaction of the same block twice.
C4_ExactlyOnce ==
    \A a \in Queried : \A j, k \in 1..Len(Stored(a)) :
        j # k => Stored(a)[j].hash # Stored(a)[k].hash

\* C5: when the fetch or decode of block b failed during a cycle, then after the
\* cycle the watermark is at most b-1 and the cycle appended no transaction of b.
C5_FailedBlockNotPassed ==
    CycleEnded =>
        \A b \in failedBlocks : GetCurrentBlock <= b - 1 /\ b \notin appendedBlocks

\* C6: every list is in ascending block number, and transactions of one block are
\* in the order of the block's transaction list.
C6_AscendingOrder ==
    \A a \in Queried : \A j, k \in 1..Len(Stored(a)) :
        j < k =>
            /\ BlockOf(Stored(a)[j]) <= BlockOf(Stored(a)[k])
            /\ BlockOf(Stored(a)[j]) = BlockOf(Stored(a)[k])
                 => IndexOf(Stored(a)[j]) <= IndexOf(Stored(a)[k])

\* C7: for every address, exactly one Subscribe call returns true (the first) once
\* the address has been subscribed and none before, however many calls were made,
\* and every order Subscribers() may return holds the address exactly once.
C7_SubscribeOnce ==
    \A a \in Addresses :
        /\ trueReturns[a] = IF a \in subscriptions THEN 1 ELSE 0
        /\ (reply.op = "Subscribe" /\ reply.address = a) => a \in subscriptions
        /\ \A q \in Orders(subscriptions) :
             Cardinality({k \in 1..Len(q) : q[k] = a}) = trueReturns[a]

\* A second Subscribe of an address has returned false.
C7_Witness ==
    /\ reply = [op |-> "Subscribe", address |-> "0xA", ok |-> FALSE]
    /\ trueReturns["0xA"] = 1
    /\ subscriptions = {"0xA", "0xB"}

\* C8: the facade's GetTransactions returns an empty, non-nil slice for every address
\* that was never subscribed and for every address with no matched transaction.
C8_EmptyNotNil ==
    \A a \in Queried :
        (a \notin subscriptions \/ a \notin DOMAIN transactions) =>
            GetTransactions(transactions, a) = EmptySlice

\* The index holds transactions of one address while another is subscribed without
\* a match and a third was never subscribed.
C8_Witness ==
    /\ "0xA" \in DOMAIN transactions
    /\ "0xB" \in subscriptions /\ "0xB" \notin DOMAIN transactions
    /\ "0xC" \notin subscriptions
    /\ StorageGetTransactions(transactions, "0xC").isNil
    /\ GetTransactions(transactions, "0xC") = EmptySlice

\* C9: after a poll cycle without a failed request in which the gateway answers H
\* to whatever height query the cycle makes, the watermark is H, with any set of
\* subscribers, the empty one included.
C9_WatermarkIsHeight ==
    \A H \in 0..MaxHeight :
        (CycleEnded /\ cycleOK /\ cycleH \subseteq {H}) => GetCurrentBlock = H

\* C10: a cycle that follows a fully successful cycle at height H, and in which no
\* request fails and every height query is answered H again, appends nothing and
\* leaves the watermark where it was.
C10_RepeatIsNoOp ==
    (prevH # {} /\ cycleOK /\ cycleH \subseteq prevH) =>
        appendedBlocks = {} /\ GetCurrentBlock = startBlock

\* A second fully successful cycle at height 2 has ended, with transactions indexed.
C10_Witness ==
    /\ CycleEnded /\ cycles = 2
    /\ prevH = {2} /\ SuccessfulAt(2)
    /\ Len(Stored("0xA")) > 0

----------------------------------------------------------------------------
\* C11: no answer of the gateway, neither a transport failure nor a height result
\* that is missing, empty or not hexadecimal, crashes or ends the polling
\* goroutine: a step taken while a gateway request is outstanding never leaves
\* the goroutine dead.
C11_GatewayNeverCrashes ==
    [][(pc \in {"height", "fetch"}) => (pc' # "crashed")]_vars

\* C12: a poll cycle in which a height query failed has changed nothing when it
\* ends: the watermark is the one the cycle started with and the cycle appended
\* no transaction, with any number of subscribed addresses.
C12_HeightFailureNoChange ==
    (CycleEnded /\ heightFailed) =>
        GetCurrentBlock = startBlock /\ appendedBlocks = {}

----------------------------------------------------------------------------
\* The polling goroutine left to run for ever against a gateway whose faults are
\* transient: the chain stands at MaxHeight, requests may fail during the first
\* MaxCycles cycles, and after them every request succeeds.

\* The gateway may still fail a request.
TransientFault == cycles < MaxCycles

\* pollTransactions: the sleep is over, in any pass of the endless loop; the count
\* of cycles stops at MaxCycles.
SubscribersBeginAgain ==
    /\ pc = "sleep"
    /\ pc' = "subscribers"
    /\ iterSeen' = subscriptions
    /\ cycles' = IF cycles < MaxCycles THEN cycles + 1 ELSE cycles
    /\ UNCHANGED <<subscriptions, transactions, currentBlock, snapshot, todo, blockNum, i,
                   reply, trueReturns, startBlock, cycleOK, cycleH, prevH,
                   failedBlocks, appendedBlocks, scanSubs, heightFailed, matchedBy,
                   chain, response, auxVars>>

\* One step of the polling goroutine.
Poll ==
    \/ SubscribersBeginAgain
    \/ SubscribersEnd
    \/ TransientFault /\ HeightError
    \/ HeightOK(HexString(MaxHeight))
    \/ TransientFault /\ FetchError
    \/ FetchOK

NextTransient ==
    \/ \E a \in Addresses : Subscribe(a)
    \/ Poll

\* The goroutine is never stopped and its requests return, so it always takes its
\* next step.
SpecTransient == Init /\ [][NextTransient]_vars /\ WF_vars(Poll)

\* C13: with transient gateway faults and the polling goroutine running for ever,
\* every transaction of every block b <= H that touches an address subscribed
\* before the first cycle started (so before any block was scanned) is eventually
\* in the list GetTransactions returns for that address.
C13_AtLeastOnce ==
    \A a \in Addresses : \A b \in 1..MaxHeight :
        (a \in subscriptions /\ cycles = 0) ~> BlockIndexed(b, a)

----------------------------------------------------------------------------
\* C14: in every state, every transaction the index holds under an address has
\* that address as its from or its to.
C14_StoredUnderParty ==
    \A a \in DOMAIN transactions : \A k \in 1..Len(transactions[a]) :
        transactions[a][k].from = a \/ transactions[a][k].to = a

\* Both lists hold a transaction received from another address, and one of them a
\* transaction sent as well.
C14_Witness ==
    /\ \E k \in 1..Len(Stored("0xA")) :
         Stored("0xA")[k].to = "0xA" /\ Stored("0xA")[k].from = "0xC"
    /\ \E k \in 1..Len(Stored("0xA")) : Stored("0xA")[k].from = "0xA"
    /\ \E k \in 1..Len(Stored("0xB")) :
         Stored("0xB")[k].to = "0xB" /\ Stored("0xB")[k].from = "0xA"

----------------------------------------------------------------------------
\* C15: the store is safe for concurrent use: while Subscribers() ranges over the
\* subscriber map for the polling goroutine, no Subscribe call writes the map and
\* the process is not ended by the runtime, so the set returned is the map as it
\* was at one point in time.
C15_SubscribersExcludesWrites ==
    [][(pc = "subscribers") => (subscriptions' = subscriptions /\ pc' # "crashed")]_vars

----------------------------------------------------------------------------
\* The same program against the gateway of the two-block scenario.
InitScenario == Start("scenario")

SpecScenario == InitScenario /\ [][Next]_vars

\* C16: from a fresh parser (watermark 0, empty index) with only 0xA subscribed,
\* against a gateway at height 2 whose block 1 holds 0xA -> 0xB and whose block 2
\* holds 0xC -> 0xA, after one cycle without a failed request GetCurrentBlock
\* returns 2 and GetTransactions(0xA) is the block-1 transaction followed by the
\* block-2 transaction and nothing else.
C16_Scenario ==
    (/\ CycleEnded /\ cycles = 1
     /\ startBlock = 0
     /\ subscriptions = {"0xA"} /\ snapshot = {"0xA"}
     /\ SuccessfulAt(2))
    => /\ GetCurrentBlock = 2
       /\ Len(Stored("0xA")) = 2
       /\ Stored("0xA")[1].hash = ScenarioBlock(1)[1].hash
       /\ Stored("0xA")[1].from = "0xA" /\ Stored("0xA")[1].to = "0xB"
       /\ Stored("0xA")[2].hash = ScenarioBlock(2)[1].hash
       /\ Stored("0xA")[2].from = "0xC" /\ Stored("0xA")[2].to = "0xA"

\* The first cycle of the scenario has ended without a failed request.
C16_Witness ==
    /\ chain = "scenario"
    /\ CycleEnded /\ cycles = 1
    /\ startBlock = 0
    /\ subscriptions = {"0xA"} /\ snapshot = {"0xA"}
    /\ SuccessfulAt(2)
    /\ Len(ScenarioBlock(1)) = 1 /\ Len(ScenarioBlock(2)) = 1

----------------------------------------------------------------------------
\* The transactions one pass of the loop over a block hands to AddTransaction for
\* the scanned address, in the order of the calls.
RECURSIVE AddCalls(_, _)
AddCalls(address, txs) ==
    IF txs = << >> THEN << >>
    ELSE (IF Matches(Head(txs), address) THEN << NewTransaction(Head(txs)) >> ELSE << >>)
           \o AddCalls(address, Tail(txs))

\* C17: for every address, what the store's GetTransactions returns after a step
\* is what it returned before the step followed by the transactions the step
\* added for that address, in the order they were added: a list only grows at its
\* end, an earlier result is a prefix of every later one, and no entry is dropped,
\* moved or changed.
C17_AppendOnly ==
    [][\A a \in Queried :
         StorageGetTransactions(transactions', a).elems =
            StorageGetTransactions(transactions, a).elems
              \o (IF pc = "fetch" /\ i' = i + 1 /\ a = Head(todo)
                  THEN AddCalls(a, BlockByNumber(HexString(i)))
                  ELSE << >>)]_vars

\* Lists that grew in several steps: three entries or more under one address, with
\* entries of two blocks, and entries under the other address.
C17_Witness ==
    /\ Len(StorageGetTransactions(transactions, "0xA").elems) >= 3
    /\ \E j, k \in 1..Len(Stored("0xA")) : BlockOf(Stored("0xA")[j]) # BlockOf(Stored("0xA")[k])
    /\ Len(StorageGetTransactions(transactions, "0xB").elems) >= 1

----------------------------------------------------------------------------
\* The HTTP handlers (api/server/server.go) in front of the facade. json.Marshal
\* cannot fail on the response types, so the 500 branches are never taken.

\* Everything but the HTTP response.
coreVars == <<subscriptions, transactions, currentBlock, reply, trueReturns, pollVars,
              cycleHist, scanSubs, chain>>

\* A handler that lets every address through.
AddressIsInvalidNever(address) == FALSE

\* The test both handlers make on the path parameter: address == "unknown".
AddressIsInvalid(address) == address = "unknown"

\* The response written for a request.
Respond(route, address, status, called, result, n) ==
    response' = [route |-> route, address |-> address, status |-> status,
                 parserCalled |-> called, result |-> result, n |-> n]

\* Handler.Subscribe: POST /subscribe/:address.
HandlerSubscribe(address) ==
    /\ pc # "crashed"
    /\ IF AddressIsInvalid(address)
       THEN /\ Respond("subscribe", address, 400, FALSE, FALSE, 0)
            /\ UNCHANGED coreVars
       ELSE /\ SubscribeCall(address)
            /\ Respond("subscribe", address, 201, TRUE,
                       SubscribeResult(subscriptions, address), 0)
    /\ UNCHANGED auxVars

\* Handler.GetTransactions: GET /transactions/:address; n is the length of the
\* list in the body.
HandlerGetTransactions(address) ==
    /\ pc # "crashed"
    /\ IF AddressIsInvalid(address)
       THEN Respond("transactions", address, 400, FALSE, FALSE, 0)
       ELSE Respond("transactions", address, 200, TRUE, FALSE,
                    Len(GetTransactions(transactions, address).elems))
    /\ UNCHANGED <<coreVars, auxVars>>

\* The program behind its HTTP boundary, with a caller of the facade that passes
\* the literal "unknown" to the core directly, against a gateway that stands at
\* MaxHeight and answers every request.
NextHTTP ==
    \/ \E a \in HttpAddresses : HandlerSubscribe(a)
    \/ \E a \in HttpAddresses : HandlerGetTransactions(a)
    \/ Subscribe("unknown")
    \/ SubscribersBegin
    \/ SubscribersEnd
    \/ HeightOK(HexString(MaxHeight))
    \/ FetchOK

SpecHTTP == Init /\ [][NextHTTP]_vars

----------------------------------------------------------------------------
\* C19: the watermark advances block by block: when a scan has fetched and matched
\* the blocks from the watermark w up to b-1 and the fetch of block b fails, the
\* scan ends with the watermark at b-1, so that the blocks w+1..b-1 are not
\* fetched again in the next cycle.
C19_WatermarkBlockByBlock ==
    [][(pc = "fetch" /\ pc' # "fetch" /\ i' = i) => (currentBlock' = i - 1)]_vars

----------------------------------------------------------------------------
\* C20: the subscriber set used for matching is read once per cycle: a block of
\* the cycle is matched only against addresses of the cycle's snapshot (never
\* against one subscribed later in the cycle), and when the cycle has ended every
\* block it fetched has been matched against the same set of addresses.
C20_OneSnapshotPerCycle ==
    /\ \A b \in DOMAIN matchedBy : matchedBy[b] \subseteq snapshot
    /\ CycleEnded =>
         \A b1, b2 \in DOMAIN matchedBy : matchedBy[b1] = matchedBy[b2]

----------------------------------------------------------------------------
\* C21: poll cycles never overlap and the watermark has a single writer: a cycle
\* starts only when the goroutine sleeps with nothing of the previous cycle left
\* to scan, and every step that changes the watermark is a step of the polling
\* goroutine inside getTransactionsSinceBlock, never a Subscribe call.
C21_NoOverlapSingleWriter ==
    [][/\ (cycles' # cycles) => (pc = "sleep" /\ todo = << >> /\ pc' = "subscribers")
       /\ (currentBlock' # currentBlock) =>
            /\ pc \in {"height", "fetch"}
            /\ UNCHANGED <<subscriptions, reply, trueReturns, response>>]_vars

\* A second cycle is scanning, after a first one that moved the watermark, with
\* Subscribe calls made meanwhile.
C21_Witness ==
    /\ cycles = 2 /\ pc = "fetch"
    /\ currentBlock > 0
    /\ subscriptions = Addresses /\ snapshot = {"0xA"}
    /\ reply.op = "Subscribe"

----------------------------------------------------------------------------
\* The shutdown sequence of main's run(): the signal, api.Shutdown with its
\* deadline of 20 s, and the return of main that ends the process.

\* run() receives SIGINT or SIGTERM from the shutdown channel and calls api.Shutdown.
ShutdownSignal ==
    /\ phase = "running"
    /\ phase' = "shutdown"
    /\ UNCHANGED <<coreVars, response, lock, txsLeft, caller>>

\* api.Shutdown returns (or its deadline passes), run() and main return and the
\* process, with the polling goroutine, ends.
Exit ==
    /\ phase = "shutdown"
    /\ phase' = "exited"
    /\ UNCHANGED <<coreVars, response, lock, txsLeft, caller>>

\* The polling goroutine is handed no channel and no context: it runs until the
\* process ends. Calls of the facade that are in flight finish until then.
NextShutdown ==
    \/ ShutdownSignal
    \/ Exit
    \/ phase # "exited" /\ \E a \in Addresses : Subscribe(a)
    \/ phase # "exited" /\ \E a \in Addresses : SubscribeDuringIteration(a)
    \/ phase # "exited" /\ SubscribersBegin
    \/ phase # "exited" /\ SubscribersEnd
    \/ phase # "exited" /\ HeightError
    \/ phase # "exited" /\ \E r \in HeightResults : HeightPanic(r)
    \/ phase # "exited" /\ \E r \in HeightResults : HeightOK(r)
    \/ phase # "exited" /\ FetchError
    \/ phase # "exited" /\ FetchOK

SpecShutdown == Init /\ [][NextShutdown]_vars

\* C22: once the shutdown signal has been received the polling goroutine starts
\* no further poll cycle.
C22_NoCycleAfterSignal ==
    [][(phase = "shutdown") => (cycles' = cycles)]_vars

----------------------------------------------------------------------------
\* The store's RWMutex made visible: every store operation that takes the lock
\* is a step that acquires it and a step that does its work and releases it, and
\* the loop over a decoded block's transactions is taken one transaction at a time.

\* The lock after the deferred ms.Unlock() of Subscribe or ms.RUnlock() of
\* GetTransactions.
Unlock(holder) == "free"

\* An AddTransaction whose deferred ms.Unlock() is left out.
UnlockAfterAddForgotten(holder) == holder

\* The lock after the deferred ms.Unlock() of AddTransaction.
UnlockAfterAdd(holder) == "free"

\* MemoryStorage.Subscribe: ms.Lock() is granted to a handler's goroutine.
SubscribeLock(address) ==
    /\ pc # "crashed"
    /\ lock = "free"
    /\ lock' = "subscribe"
    /\ caller' = address
    /\ UNCHANGED <<coreVars, response, phase, txsLeft>>

\* MemoryStorage.Subscribe: the map is read and written and the lock released.
SubscribeUnlock ==
    /\ lock = "subscribe"
    /\ SubscribeCall(caller)
    /\ lock' = Unlock(lock)
    /\ caller' = ""
    /\ UNCHANGED <<response, phase, txsLeft>>

\* MemoryStorage.GetTransactions: ms.RLock() is granted to a handler's goroutine.
ReadLock ==
    /\ pc # "crashed"
    /\ lock = "free"
    /\ lock' = "read"
    /\ UNCHANGED <<coreVars, response, phase, txsLeft, caller>>

\* MemoryStorage.GetTransactions: the slice is read and the lock released.
ReadUnlock ==
    /\ lock = "read"
    /\ lock' = Unlock(lock)
    /\ UNCHANGED <<coreVars, response, phase, txsLeft, caller>>

\* The response of eth_getBlockByNumber for block i has arrived and is decoded.
FetchDecoded ==
    /\ pc = "fetch"
    /\ pc' = "match"
    /\ txsLeft' = BlockByNumber(HexString(i))
    /\ matchedBy' = [b \in DOMAIN matchedBy \union {i} |->
                       (IF b \in DOMAIN matchedBy THEN matchedBy[b] ELSE {})
                         \union (IF b = i THEN {Head(todo)} ELSE {})]
    /\ UNCHANGED <<subscriptions, transactions, currentBlock, iterSeen, snapshot, todo,
                   blockNum, i, reply, trueReturns, cycles, startBlock, cycleOK, cycleH,
                   prevH, failedBlocks, appendedBlocks, scanSubs, heightFailed, chain,
                   response, phase, lock, caller>>

\* The next transaction of the block has neither From nor To equal to the address.
MatchSkip ==
    /\ pc = "match"
    /\ txsLeft # << >>
    /\ MatchOne(transactions, Head(todo), Head(txsLeft)) = transactions
    /\ txsLeft' = Tail(txsLeft)
    /\ UNCHANGED <<coreVars, response, phase, lock, caller>>

\* The next transaction matches: AddTransaction is called and ms.Lock() is granted.
AddLock ==
    /\ pc = "match"
    /\ txsLeft # << >>
    /\ MatchOne(transactions, Head(todo), Head(txsLeft)) # transactions
    /\ lock = "free"
    /\ lock' = "poller"
    /\ pc' = "append"
    /\ UNCHANGED <<subscriptions, transactions, currentBlock, iterSeen, snapshot, todo,
                   blockNum, i, reply, trueReturns, cycleHist, scanSubs, chain,
                   response, phase, txsLeft, caller>>

\* AddTransaction appends and releases the lock.
AddUnlock ==
    /\ pc = "append"
    /\ transactions' = MatchOne(transactions, Head(todo), Head(txsLeft))
    /\ appendedBlocks' = appendedBlocks \union {i}
    /\ txsLeft' = Tail(txsLeft)
    /\ lock' = UnlockAfterAdd(lock)
    /\ pc' = "match"
    /\ UNCHANGED <<subscriptions, currentBlock, iterSeen, snapshot, todo, blockNum, i,
                   reply, trueReturns, cycles, startBlock, cycleOK, cycleH, prevH,
                   failedBlocks, scanSubs, heightFailed, matchedBy, chain, response,
                   phase, caller>>

\* The loop over the block's transactions is over: i++, and after the last block
\* the watermark is set.
MatchDone ==
    /\ pc = "match"
    /\ txsLeft = << >>
    /\ i' = i + 1
    /\ IF i + 1 <= Int64(blockNum)
       THEN /\ pc' = "fetch"
            /\ UNCHANGED <<todo, currentBlock, scanSubs>>
       ELSE /\ Return
            /\ SetCurrentBlock(Int64(blockNum))
    /\ UNCHANGED <<subscriptions, transactions, iterSeen, snapshot, blockNum, reply,
                   trueReturns, cycleHist, chain, response, auxVars>>

\* The handlers' store calls and the polling goroutine, step by step, against a
\* gateway that stands at MaxHeight, may fail the height query and serves every block.
NextLock ==
    \/ \E a \in Addresses : SubscribeLock(a)
    \/ SubscribeUnlock
    \/ ReadLock
    \/ ReadUnlock
    \/ SubscribersBegin
    \/ SubscribersEnd
    \/ HeightError
    \/ HeightOK(HexString(MaxHeight))
    \/ FetchDecoded
    \/ MatchSkip
    \/ AddLock
    \/ AddUnlock
    \/ MatchDone

SpecLock == Init /\ [][NextLock]_vars

\* C23: while a gateway request of the polling goroutine is in flight (the height
\* query or a block fetch), and while it sleeps or reads the subscribers, the
\* goroutine does not hold the store's lock: it holds it only inside one
\* AddTransaction call, so a Subscribe or GetTransactions call is never kept
\* waiting for the duration of a request.
C23_NoLockDuringRequest ==
    (pc \in {"sleep", "subscribers", "height", "fetch", "match"}) => lock # "poller"

\* A block fetch is in flight while a handler's Subscribe holds the lock, after the
\* polling goroutine has held and released it for an append.
C23_Witness ==
    /\ pc = "fetch"
    /\ lock = "subscribe" /\ caller = "0xB"
    /\ Len(Stored("0xA")) > 0

----------------------------------------------------------------------------
\* The program against a gateway that may also report the first height that does
\* not fit the signed integer of the build.

\* The smallest height above the largest int64.
WideHeight == 2 ^ (IntBits - 1)

NextWide ==
    \/ \E a \in Addresses : Subscribe(a)
    \/ \E a \in Addresses : SubscribeDuringIteration(a)
    \/ SubscribersBegin
    \/ SubscribersEnd
    \/ HeightError
    \/ \E r \in HeightResults : HeightPanic(r)
    \/ \E r \in HeightResults \union {HexString(WideHeight)} : HeightOK(r)
    \/ FetchError
    \/ FetchOK

SpecWide == Init /\ [][NextWide]_vars

\* C24: block numbers are kept exactly, whatever their size: the watermark is
\* never negative, and after a cycle with subscribers in which no request failed
\* and every height query was answered H it is H.
C24_ExactBlockNumbers ==
    /\ GetCurrentBlock >= 0
    /\ (CycleEnded /\ cycleOK /\ Cardinality(cycleH) = 1) => cycleH = {GetCurrentBlock}

----------------------------------------------------------------------------
\* C25: every record GetTransactions returns carries the hash, from, to, value,
\* gas, gasPrice, blockNumber and blockHash of the transaction the gateway served;
\* its blockNumber is the number of the block it was found in.
C25_RecordCarriesAllFields ==
    \A a \in Queried : \A k \in 1..Len(Stored(a)) :
        LET s == Stored(a)[k]
            t == Block(BlockOf(s))[IndexOf(s)]
        IN  /\ s.hash = t.hash /\ s.from = t.from /\ s.to = t.to
            /\ s.value = t.value /\ s.gas = t.gas /\ s.gasPrice = t.gasPrice
            /\ ~s.blockNumberIsNil
            /\ s.blockNumber = t.blockNumber
            /\ s.blockNumber = BlockOf(s)
            /\ s.blockHash = t.blockHash

----------------------------------------------------------------------------
\* How often the transaction with hash h is in a list.
Count(list, h) == Cardinality({k \in 1..Len(list) : list[k].hash = h})

\* C26: the scan of a block for an address A appends a transaction of the block
\* whose from and to are both A exactly once under A, not once as sent and once
\* as received.
C26_SelfTransactionOnce ==
    [][(pc = "fetch" /\ i' = i + 1) =>
         \A k \in 1..Len(Block(i)) :
            (Block(i)[k].from = Head(todo) /\ Block(i)[k].to = Head(todo)) =>
                Count(StorageGetTransactions(transactions', Head(todo)).elems,
                      Block(i)[k].hash)
                  = Count(StorageGetTransactions(transactions, Head(todo)).elems,
                          Block(i)[k].hash) + 1]_vars

\* Block 1, with its transaction 0xA -> 0xA, has been scanned for 0xA once.
C26_Witness ==
    /\ MixedBlock(1)[2].from = "0xA" /\ MixedBlock(1)[2].to = "0xA"
    /\ Count(Stored("0xA"), MixedBlock(1)[2].hash) = 1
    /\ Count(Stored("0xA"), MixedBlock(1)[1].hash) = 1
    /\ chain = "mixed"

====
